---- MODULE Spec2Model ----
(***************************************************************************)
(* A model of the Streamlit page src/streamlit.py: the logo normalizer    *)
(* (normalize_text, resize_logos), the access gate (check_password and    *)
(* its callback password_entered) and the plot builder (axis limits, the  *)
(* row loop and add_logo_marker).                                          *)
(*                                                                         *)
(* Text is modelled as a sequence of Unicode code points, so that the     *)
(* normalization, the ASCII test of hmac.compare_digest and the file name *)
(* handling are computed the way the code computes them.                  *)
(***************************************************************************)
EXTENDS Integers, Sequences, FiniteSets, TLC

VARIABLES
    session_state,     \* st.session_state: a function from the keys present to their values
    logos,             \* the file names in ./logos
    normalized_logos,  \* the file names in ./normalized_logos
    dir_writes,        \* how many runs of resize_logos have written to ./normalized_logos
    uploaded_file,     \* the value of the file uploader: NoFile or a dataset
    x_axis,            \* the value of the "Select X-axis Variable" selectbox
    y_axis,            \* the value of the "Select Y-axis Variable" selectbox
    rendered,          \* the elements the last script run put on the page
    chart,             \* the figure the last script run built
    lastOp,            \* the last user interaction and its inputs
    norm               \* normalize_text applied to a text once and twice

vars == <<session_state, logos, normalized_logos, dir_writes, uploaded_file,
          x_axis, y_axis, rendered, chart, lastOp, norm>>

----------------------------------------------------------------------------
(* Bounds of the model *)

\* the longest text normalize_text is applied to on its own
MaxLen == 3

\* the most rows a dataset has
MaxRows == 2

\* dir_writes counts up to this many writing runs of resize_logos
MaxWrites == 2

----------------------------------------------------------------------------
(* Characters: Unicode code points *)

LatinCapitalE == 69
LatinSmallE == 101
LatinCapitalK == 75
LatinSmallK == 107
Space == 32
SmallEAcute == 233          \* U+00E9, precomposed
CapitalEAcute == 201        \* U+00C9, precomposed
CombiningAcute == 769       \* U+0301
KelvinSign == 8490          \* U+212A, canonically equivalent to K
CapitalKAcute == 7728       \* U+1E30
SmallKAcute == 7729         \* U+1E31

\* the characters the texts of the normalization check are built from
Alphabet == {LatinCapitalE, LatinSmallE, Space, SmallEAcute, CombiningAcute, KelvinSign}

\* canonical decomposition of one character (unicodedata, for the characters used here)
Decompose(c) ==
    CASE c = SmallEAcute   -> <<LatinSmallE, CombiningAcute>>
      [] c = CapitalEAcute -> <<LatinCapitalE, CombiningAcute>>
      [] c = KelvinSign    -> <<LatinCapitalK>>
      [] c = CapitalKAcute -> <<LatinCapitalK, CombiningAcute>>
      [] c = SmallKAcute   -> <<LatinSmallK, CombiningAcute>>
      [] OTHER             -> <<c>>

\* canonical composition of a starter with the combining acute accent
ComposeTable ==
    (LatinSmallE :> SmallEAcute) @@ (LatinCapitalE :> CapitalEAcute) @@
    (LatinCapitalK :> CapitalKAcute) @@ (LatinSmallK :> SmallKAcute)

RECURSIVE DecomposeAll(_)
DecomposeAll(s) ==
    IF s = <<>> THEN <<>> ELSE Decompose(Head(s)) \o DecomposeAll(Tail(s))

\* one step of canonical composition: the accent joins the starter right before it
ComposeStep(out, c) ==
    IF c = CombiningAcute /\ Len(out) > 0 /\ out[Len(out)] \in DOMAIN ComposeTable
    THEN [out EXCEPT ![Len(out)] = ComposeTable[out[Len(out)]]]
    ELSE Append(out, c)

RECURSIVE ComposeAll(_, _)
ComposeAll(out, s) ==
    IF s = <<>> THEN out ELSE ComposeAll(ComposeStep(out, Head(s)), Tail(s))

\* unicodedata.normalize('NFC', text)
NFC(s) == ComposeAll(<<>>, DecomposeAll(s))

IsAscii(c) == c < 128

\* .encode('ascii', 'ignore').decode('utf-8'): the non-ASCII characters are dropped
AsciiIgnore(s) == SelectSeq(s, IsAscii)

\* a faulty variant of LowerChar: str.swapcase() in place of str.lower()
SwapCaseChar(c) ==
    IF c \in 65..90 THEN c + 32 ELSE IF c \in 97..122 THEN c - 32 ELSE c

\* str.lower() of one ASCII character (only ASCII is left when it is applied)
LowerChar(c) == IF c \in 65..90 THEN c + 32 ELSE c

Lower(s) == [i \in 1..Len(s) |-> LowerChar(s[i])]

\* a faulty variant of normalize_text: the spaces are also turned into underscores
UnderscoreNormalizeText(s) ==
    LET folded == Lower(AsciiIgnore(NFC(s)))
    IN  [i \in 1..Len(folded) |-> IF folded[i] = Space THEN 95 ELSE folded[i]]

\* normalize_text(text)
normalize_text(s) == Lower(AsciiIgnore(NFC(s)))

RECURSIVE TextsOfLen(_)
TextsOfLen(n) ==
    IF n = 0 THEN {<<>>}
    ELSE {Append(s, c) : s \in TextsOfLen(n - 1), c \in Alphabet}

Texts == UNION {TextsOfLen(n) : n \in 0..MaxLen}

----------------------------------------------------------------------------
(* File names and the Logo Normalizer *)

DotPng == <<46, 112, 110, 103>>                  \* ".png"

\* "Universidad de Chile"
UniversidadDeChile ==
    <<85, 110, 105, 118, 101, 114, 115, 105, 100, 97, 100, 32, 100, 101, 32, 67, 104, 105, 108, 101>>

\* "Everton"
Everton == <<69, 118, 101, 114, 116, 111, 110>>

\* "universidad_de_chile"
universidad_de_chile ==
    <<117, 110, 105, 118, 101, 114, 115, 105, 100, 97, 100, 95, 100, 101, 95, 99, 104, 105, 108, 101>>

\* "universidad de chile"
universidad_de_chile_spaced ==
    <<117, 110, 105, 118, 101, 114, 115, 105, 100, 97, 100, 32, 100, 101, 32, 99, 104, 105, 108, 101>>

\* the contents ./logos can have when the process starts
LogoDirs ==
    { {},
      {universidad_de_chile \o DotPng},
      {UniversidadDeChile \o DotPng},
      {UniversidadDeChile \o <<46, 80, 78, 71>>,            \* "Universidad de Chile.PNG"
       <<110, 111, 116, 101, 115, 46, 116, 120, 116>>} }    \* "notes.txt"

\* str.endswith(suffix)
EndsWith(s, suffix) ==
    /\ Len(s) >= Len(suffix)
    /\ SubSeq(s, Len(s) - Len(suffix) + 1, Len(s)) = suffix

\* os.path.splitext(name)[0]: the name up to its last dot, unless only dots precede it
SplitextBase(s) ==
    LET dots == {i \in 1..Len(s) : s[i] = 46}
    IN  IF dots = {} THEN s
        ELSE LET last == CHOOSE i \in dots : \A j \in dots : j <= i
             IN  IF \E k \in 1..(last - 1) : s[k] # 46
                 THEN SubSeq(s, 1, last - 1)
                 ELSE s

\* resize_logos("./logos", "./normalized_logos"): the directory after the call
resize_logos(logos_path, output_path) ==
    output_path \cup
    {normalize_text(SplitextBase(logo_file)) \o DotPng :
        logo_file \in {f \in logos_path : EndsWith(f, DotPng)}}

\* whether a call of resize_logos writes: it creates the output directory when it
\* does not exist (it exists once a call has run) and saves every .png of ./logos
WritesDir(logos_path, exists) ==
    ~exists \/ \E logo_file \in logos_path : EndsWith(logo_file, DotPng)

----------------------------------------------------------------------------
(* The access gate *)

Alice == <<97, 108, 105, 99, 101>>
Maria == <<109, 97, 114, 105, 97>>
Mallory == <<109, 97, 108, 108, 111, 114, 121>>
Secret == <<115, 101, 99, 114, 101, 116>>                      \* "secret"
Wrong == <<119, 114, 111, 110, 103>>                           \* "wrong"
Contrasena == <<99, 111, 110, 116, 114, 97, 115, 101, 241, 97>>  \* "contrase" + U+00F1 + "a"

\* st.secrets["passwords"]: username -> secret
Passwords == (Alice :> Secret) @@ (Maria :> Contrasena)

\* what a user can type into the login form
TypedUsernames == {Alice, Maria, Mallory}
TypedPasswords == {Secret, Wrong, Contrasena}

\* hmac.compare_digest(a, b) on str: ASCII only, otherwise TypeError
compare_digest(a, b) ==
    IF \E i \in 1..Len(a) : ~IsAscii(a[i]) THEN "TypeError"
    ELSE IF \E i \in 1..Len(b) : ~IsAscii(b[i]) THEN "TypeError"
    ELSE IF a = b THEN "True" ELSE "False"

\* session state with key k set to v
SetKey(ss, k, v) == [x \in DOMAIN ss \cup {k} |-> IF x = k THEN v ELSE ss[x]]

\* del st.session_state[k]
DelKey(ss, k) == [x \in DOMAIN ss \ {k} |-> ss[x]]

\* password_entered(): the session state it leaves, and whether it raised
password_entered(ss) ==
    IF ss["username"] \in DOMAIN Passwords
    THEN CASE compare_digest(ss["password"], Passwords[ss["username"]]) = "TypeError" ->
                [raised |-> TRUE, ss |-> ss]
           [] compare_digest(ss["password"], Passwords[ss["username"]]) = "True" ->
                [raised |-> FALSE,
                 ss |-> DelKey(DelKey(SetKey(ss, "password_correct", TRUE), "password"),
                               "username")]
           [] OTHER ->
                [raised |-> FALSE, ss |-> SetKey(ss, "password_correct", FALSE)]
    ELSE [raised |-> FALSE, ss |-> SetKey(ss, "password_correct", FALSE)]

\* st.session_state.get("password_correct", False), the value check_password() returns
check_password(ss) ==
    IF "password_correct" \in DOMAIN ss THEN ss["password_correct"] ELSE FALSE

\* login_form(): the text inputs register their keys, with the empty text when new
login_form(ss) ==
    [x \in DOMAIN ss \cup {"username", "password"} |->
        IF x \in DOMAIN ss THEN ss[x] ELSE <<>>]

\* what check_password() puts on the page when it returns False
GateElements(ss) ==
    {"login_form"} \cup (IF "password_correct" \in DOMAIN ss THEN {"error"} ELSE {})

----------------------------------------------------------------------------
(* Datasets: the DataFrame read from the uploaded sheet *)

\* cells of a measurement column
Num(n) == [kind |-> "num", v |-> n]         \* a number
NaN == [kind |-> "nan", v |-> 0]            \* an empty cell: float('nan')
Str == [kind |-> "str", v |-> 0]            \* a text cell

\* cells of the "Equipo" column
Team(name) == [kind |-> "str", v |-> name]  \* a text cell holding the team name
NoTeam == [kind |-> "nan", v |-> <<>>]      \* an empty cell: float('nan')

XCells == {Num(-5), Num(10), NaN, Str}
YCells == {Num(5)}
Teams == {Team(UniversidadDeChile), Team(Everton), NoTeam}

\* a row of the sheet: the first column "Equipo", then the columns "X" and "Y"
Rows == [Equipo : Teams, X : XCells, Y : YCells]

RECURSIVE DatasetsOfLen(_)
DatasetsOfLen(n) ==
    IF n = 0 THEN {<<>>}
    ELSE {Append(d, r) : d \in DatasetsOfLen(n - 1), r \in Rows}

Datasets == UNION {DatasetsOfLen(n) : n \in 0..MaxRows}

\* df.columns[1:], the options of the two selectboxes
dropdown_columns == <<"X", "Y">>

NoFile == [present |-> FALSE, df |-> <<>>]
File(df) == [present |-> TRUE, df |-> df]

----------------------------------------------------------------------------
(* The Plot Builder *)

SetMax(S) == CHOOSE m \in S : \A n \in S : n <= m

\* df[col].max() + 1: TypeError when the column holds text, nan when it holds no number
ColumnMaxPlusOne(df, col) ==
    LET cells == {df[i][col] : i \in 1..Len(df)}
        nums == {c.v : c \in {d \in cells : d.kind = "num"}}
    IN  IF \E c \in cells : c.kind = "str" THEN [kind |-> "TypeError", v |-> 0]
        ELSE IF nums = {} THEN NaN
        ELSE Num(SetMax(nums) + 1)

\* isinstance(value, (int, float))
IsIntOrFloat(cell) == cell.kind \in {"num", "nan"}

\* a faulty variant of PathExists: the file is taken to exist
AlwaysLogo(present) == TRUE

\* os.path.exists(logo_file)
PathExists(present) == present

\* add_logo_marker(ax, x, y, team_name): the artist it adds to the axes
add_logo_marker(x, y, team_name, logos_path, row) ==
    LET normalized_team_name == normalize_text(team_name)
        logo_file == normalized_team_name \o DotPng
    IN  IF PathExists(logo_file \in logos_path)
        THEN [kind |-> "logo", x |-> x, y |-> y, name |-> logo_file, row |-> row]
        ELSE [kind |-> "dot", x |-> x, y |-> y, name |-> team_name, row |-> row]

\* the validation of a row's x and y values: TRUE when the row is skipped. The
\* datasets here hold a text column, so iterrows() yields Python objects and the
\* numbers of a row are int or float.
SkipRow(x_value, y_value) == ~(IsIntOrFloat(x_value) /\ IsIntOrFloat(y_value))

\* for _, row in df.iterrows(): the artists added from row i on, and whether
\* normalize_text raised on a team name that is not text
RECURSIVE PlotRows(_, _, _, _, _, _)
PlotRows(df, i, xa, ya, logos_path, artists) ==
    IF i > Len(df) THEN [raised |-> FALSE, artists |-> artists]
    ELSE LET row == df[i]
             team_name == row.Equipo
             x_value == row[xa]
             y_value == row[ya]
         IN  IF SkipRow(x_value, y_value)
             THEN PlotRows(df, i + 1, xa, ya, logos_path, artists)
             ELSE IF team_name.kind # "str"
             THEN [raised |-> TRUE, artists |-> artists]
             ELSE PlotRows(df, i + 1, xa, ya, logos_path,
                           Append(artists,
                                  add_logo_marker(x_value, y_value, team_name.v,
                                                  logos_path, i)))

NoChart == [status |-> "none", xlim |-> <<>>, ylim |-> <<>>, artists |-> <<>>]

\* the figure lines 124-178 build: the limits passed to set_xlim and set_ylim, the
\* artists added, and whether the figure was shown or an exception ended the run
BuildChart(df, xa, ya, logos_path) ==
    LET x_max == ColumnMaxPlusOne(df, xa)
        y_max == ColumnMaxPlusOne(df, ya)
        x_min == 0                               \* the axes are forced to start at 0
        y_min == 0
        plot == PlotRows(df, 1, xa, ya, logos_path, <<>>)
    IN  IF x_max.kind = "TypeError" \/ y_max.kind = "TypeError"
        THEN [NoChart EXCEPT !.status = "raised"]
        ELSE IF x_max.kind = "nan"               \* set_xlim rejects nan
        THEN [NoChart EXCEPT !.status = "raised"]
        ELSE IF y_max.kind = "nan"               \* set_ylim rejects nan
        THEN [NoChart EXCEPT !.status = "raised", !.xlim = <<x_min, x_max.v>>]
        ELSE [status |-> IF plot.raised THEN "raised" ELSE "shown",
              xlim |-> <<x_min, x_max.v>>,
              ylim |-> <<y_min, y_max.v>>,
              artists |-> plot.artists]

----------------------------------------------------------------------------
(* The page: every user interaction re-executes the script top to bottom *)

Min(a, b) == IF a < b THEN a ELSE b

Op(type, username, password) == [type |-> type, username |-> username, password |-> password]

\* the elements a run puts on the page once check_password() has returned True
PageElements(up, fig) ==
    {"sidebar_image", "file_uploader"}
    \cup (IF up.present
          THEN {"sheet_select", "x_select", "y_select", "checkbox", "dataframe"}
          ELSE {})
    \cup (IF fig.status = "shown" THEN {"plot", "download_button"} ELSE {})
    \cup (IF fig.status = "raised" THEN {"exception"} ELSE {})

\* the elements of the page that lie past the gate
PastGate ==
    {"sidebar_image", "file_uploader", "sheet_select", "x_select", "y_select",
     "checkbox", "dataframe", "plot", "download_button"}

\* a faulty variant of GateOpen: the key is tested for presence, not for its value
GateOpenWhenKeyPresent(ss) == "password_correct" \in DOMAIN ss

\* if not check_password(): st.stop()
GateOpen(ss) == check_password(ss)

\* a faulty variant of LoginFormShown: the form is shown before the early return
LoginFormAlways(ss) == TRUE

\* check_password() shows the login form only when it is about to return False
LoginFormShown(ss) == ~GateOpen(ss)

\* one execution of the script (lines 19-195), from the session state ss, the
\* uploader value up and the selectbox values xa and ya
RunScript(ss, up, xa, ya, op) ==
    LET dir == resize_logos(logos, normalized_logos)
        fig == IF GateOpen(ss) /\ up.present THEN BuildChart(up.df, xa, ya, dir) ELSE NoChart
    IN  /\ normalized_logos' = dir
        /\ dir_writes' = IF WritesDir(logos, dir_writes > 0)
                         THEN Min(dir_writes + 1, MaxWrites)
                         ELSE dir_writes
        /\ session_state' = IF LoginFormShown(ss) THEN login_form(ss) ELSE ss
        /\ rendered' = (IF LoginFormShown(ss) THEN GateElements(ss) ELSE {})
                       \cup (IF GateOpen(ss) THEN PageElements(up, fig) ELSE {})
        /\ chart' = fig
        /\ uploaded_file' = up
        /\ x_axis' = xa
        /\ y_axis' = ya
        /\ lastOp' = op
        /\ UNCHANGED <<logos, norm>>

\* the user opens the page, or triggers a rerun without changing a widget
Rerun ==
    RunScript(session_state, uploaded_file, x_axis, y_axis, Op("run", <<>>, <<>>))

\* the user types u and p into the form and presses "Log in": the callback
\* password_entered runs before the script; an exception in it ends the run before
\* the script starts
SubmitLogin ==
    /\ "login_form" \in rendered
    /\ \E u \in TypedUsernames, p \in TypedPasswords :
        LET typed == SetKey(SetKey(session_state, "username", u), "password", p)
            after == password_entered(typed)
        IN  IF after.raised
            THEN /\ session_state' = after.ss
                 /\ rendered' = {"exception"}
                 /\ chart' = NoChart
                 /\ lastOp' = Op("login", u, p)
                 /\ UNCHANGED <<logos, normalized_logos, dir_writes, uploaded_file,
                                x_axis, y_axis, norm>>
            ELSE RunScript(after.ss, uploaded_file, x_axis, y_axis, Op("login", u, p))

\* the user puts a file into the empty uploader; the selectboxes start at index 0 and 1
UploadFile ==
    /\ "file_uploader" \in rendered
    /\ ~uploaded_file.present
    /\ \E df \in Datasets :
        RunScript(session_state, File(df), dropdown_columns[1], dropdown_columns[2],
                  Op("run", <<>>, <<>>))

\* the user clears the uploader
RemoveFile ==
    /\ "file_uploader" \in rendered
    /\ uploaded_file.present
    /\ RunScript(session_state, NoFile, dropdown_columns[1], dropdown_columns[2],
                 Op("run", <<>>, <<>>))

\* the user picks another column in one of the two selectboxes
SelectAxes ==
    /\ "x_select" \in rendered
    /\ \E xa \in {"X", "Y"}, ya \in {"X", "Y"} :
        /\ <<xa, ya>> # <<x_axis, y_axis>>
        /\ RunScript(session_state, uploaded_file, xa, ya, Op("run", <<>>, <<>>))

NoNorm == [stage |-> "none", text |-> <<>>, once |-> <<>>, twice |-> <<>>]

\* the process has started and no browser has connected yet
Init ==
    /\ session_state = <<>>
    /\ logos \in LogoDirs
    /\ normalized_logos = {}
    /\ dir_writes = 0
    /\ uploaded_file = NoFile
    /\ x_axis = dropdown_columns[1]
    /\ y_axis = dropdown_columns[2]
    /\ rendered = {}
    /\ chart = NoChart
    /\ lastOp = Op("start", <<>>, <<>>)
    /\ norm = NoNorm

Next ==
    \/ Rerun
    \/ SubmitLogin
    \/ UploadFile
    \/ RemoveFile
    \/ SelectAxes

Spec == Init /\ [][Next]_vars

----------------------------------------------------------------------------
(* normalize_text on its own: a text is drawn, then normalized once and twice *)

InitNorm ==
    /\ session_state = <<>>
    /\ logos = {}
    /\ normalized_logos = {}
    /\ dir_writes = 0
    /\ uploaded_file = NoFile
    /\ x_axis = dropdown_columns[1]
    /\ y_axis = dropdown_columns[2]
    /\ rendered = {}
    /\ chart = NoChart
    /\ lastOp = Op("start", <<>>, <<>>)
    /\ \E t \in Texts : norm = [stage |-> "text", text |-> t, once |-> <<>>, twice |-> <<>>]

NormalizeOnce ==
    /\ norm.stage = "text"
    /\ norm' = [norm EXCEPT !.stage = "once", !.once = normalize_text(norm.text)]
    /\ UNCHANGED <<session_state, logos, normalized_logos, dir_writes, uploaded_file,
                   x_axis, y_axis, rendered, chart, lastOp>>

NormalizeTwice ==
    /\ norm.stage = "once"
    /\ norm' = [norm EXCEPT !.stage = "twice", !.twice = normalize_text(norm.once)]
    /\ UNCHANGED <<session_state, logos, normalized_logos, dir_writes, uploaded_file,
                   x_axis, y_axis, rendered, chart, lastOp>>

NextNorm == NormalizeOnce \/ NormalizeTwice

SpecNorm == InitNorm /\ [][NextNorm]_vars

----------------------------------------------------------------------------
(* The claims *)

Authenticated == check_password(session_state)

\* the rows of the uploaded dataset
RowIndices == 1..Len(uploaded_file.df)

\* the artists the chart holds for row i
ArtistsOfRow(i) == {k \in 1..Len(chart.artists) : chart.artists[k].row = i}

\* C1: the sidebar image, the uploader, the dataset display, the plot and the
\* download button are on the page only when password_correct is True; when it is
\* absent or False nothing past the login form (and its error) is rendered and no
\* chart is built.
C1_GateGuardsPage ==
    /\ rendered \cap PastGate # {} => Authenticated
    /\ ~Authenticated =>
        /\ rendered \in {{}, {"exception"}, {"login_form"}, {"login_form", "error"}}
        /\ chart = NoChart

C1_Witness ==
    /\ Authenticated
    /\ {"sidebar_image", "file_uploader", "dataframe", "plot", "download_button"}
         \subseteq rendered

\* C2: a submitted username that is a key of the credential store, with a password
\* equal to its stored secret, leaves the session authenticated and without the
\* keys "username" and "password".
C2_MatchAuthenticates ==
    (/\ lastOp.type = "login"
     /\ lastOp.username \in DOMAIN Passwords
     /\ lastOp.password = Passwords[lastOp.username])
    => /\ Authenticated
       /\ "username" \notin DOMAIN session_state
       /\ "password" \notin DOMAIN session_state

\* C3: submitted credentials that do not match leave password_correct False, and
\* the run that follows shows the login form with the error message and nothing
\* past the gate.
C3_MismatchShowsError ==
    (/\ lastOp.type = "login"
     /\ ~(/\ lastOp.username \in DOMAIN Passwords
          /\ lastOp.password = Passwords[lastOp.username]))
    => /\ "password_correct" \in DOMAIN session_state
       /\ ~Authenticated
       /\ rendered = {"login_form", "error"}

\* C4: once password_correct is True it stays True, and every later run passes
\* the gate (it renders the page past the gate and no login form).
C4_AuthenticatedIsTerminal ==
    [][Authenticated =>
          /\ Authenticated'
          /\ "file_uploader" \in rendered'
          /\ "login_form" \notin rendered']_vars

C4_Witness ==
    /\ Authenticated
    /\ lastOp.type = "run"
    /\ uploaded_file.present

\* C5: a row whose selected x or y value is not a number (empty, text) is skipped
\* without error: the run raises no exception and the chart holds no logo and no
\* dot for that row.
C5_InvalidRowsSkipped ==
    (Authenticated /\ uploaded_file.present) =>
        \A i \in RowIndices :
            (\/ uploaded_file.df[i][x_axis].kind # "num"
             \/ uploaded_file.df[i][y_axis].kind # "num")
            => /\ chart.status = "shown"
               /\ ArtistsOfRow(i) = {}

\* C6: every plotted row has one marker, at the row's (x, y): the logo when
\* <normalize_text(category)>.png is in the normalized-logo directory and no dot;
\* otherwise a red dot labelled with the raw category value.
C6_MarkerByAssetLookup ==
    \A k \in 1..Len(chart.artists) :
        LET a == chart.artists[k]
            row == uploaded_file.df[a.row]
            key == normalize_text(row.Equipo.v) \o DotPng
        IN  /\ a.x = row[x_axis]
            /\ a.y = row[y_axis]
            /\ ArtistsOfRow(a.row) = {k}
            /\ key \in normalized_logos => a.kind = "logo" /\ a.name = key
            /\ key \notin normalized_logos => a.kind = "dot" /\ a.name = row.Equipo.v

C6_Witness ==
    /\ chart.status = "shown"
    /\ \E i \in RowIndices : \E k \in ArtistsOfRow(i) : chart.artists[k].kind = "logo"
    /\ \E i \in RowIndices : \E k \in ArtistsOfRow(i) : chart.artists[k].kind = "dot"

\* the scenario of C7: the row {Equipo: "Universidad de Chile", X: 10, Y: 5} is row i
\* of the dataset and the chart is drawn over the columns X and Y
ScenarioRow(i) ==
    /\ Authenticated
    /\ uploaded_file.present
    /\ i \in RowIndices
    /\ uploaded_file.df[i] = [Equipo |-> Team(UniversidadDeChile), X |-> Num(10), Y |-> Num(5)]
    /\ x_axis = "X"
    /\ y_axis = "Y"
    /\ chart.status = "shown"

LogoAt(i, x, y) ==
    \E k \in ArtistsOfRow(i) :
        /\ chart.artists[k].kind = "logo"
        /\ chart.artists[k].x = Num(x)
        /\ chart.artists[k].y = Num(y)

DotAt(i, x, y, label) ==
    \E k \in ArtistsOfRow(i) :
        /\ chart.artists[k].kind = "dot"
        /\ chart.artists[k].x = Num(x)
        /\ chart.artists[k].y = Num(y)
        /\ chart.artists[k].name = label

NoDot(i) == \A k \in ArtistsOfRow(i) : chart.artists[k].kind # "dot"

NoLogo(i) == \A k \in ArtistsOfRow(i) : chart.artists[k].kind # "logo"

\* C7 as stated: with universidad_de_chile.png in the asset directory the row shows
\* the logo at (10, 5) and no fallback dot.
C7_UnderscoreAssetShowsLogo ==
    \A i \in RowIndices :
        (ScenarioRow(i) /\ (universidad_de_chile \o DotPng) \in normalized_logos)
        => LogoAt(i, 10, 5) /\ NoDot(i)

\* C7 as amended: the lookup key of "Universidad de Chile" is "universidad de chile"
\* (lowercased, the spaces kept): the row shows the logo at (10, 5) and no dot when
\* "universidad de chile.png" is in the asset directory, and otherwise, also with
\* universidad_de_chile.png there, a red dot at (10, 5) labelled "Universidad de Chile".
C7_SpacedAssetShowsLogo ==
    \A i \in RowIndices :
        ScenarioRow(i) =>
            IF (universidad_de_chile_spaced \o DotPng) \in normalized_logos
            THEN LogoAt(i, 10, 5) /\ NoDot(i)
            ELSE DotAt(i, 10, 5, UniversidadDeChile) /\ NoLogo(i)

C7_Witness ==
    /\ ScenarioRow(1)
    /\ (universidad_de_chile \o DotPng) \in normalized_logos
    /\ DotAt(1, 10, 5, UniversidadDeChile)

\* C8: the limits set on the chart satisfy lower < upper on both axes.
C8_AxisLimitsOrdered ==
    /\ chart.xlim # <<>> => chart.xlim[1] < chart.xlim[2]
    /\ chart.ylim # <<>> => chart.ylim[1] < chart.ylim[2]

\* C9: the normalized-logo directory is written by at most one run of the Logo
\* Normalizer, the one at process start.
C9_DirectoryWrittenOnce == dir_writes <= 1

\* C10: normalize_text(normalize_text(s)) = normalize_text(s).
C10_NormalizeIdempotent == norm.stage = "twice" => norm.twice = norm.once

C10_Witness ==
    /\ norm.stage = "twice"
    /\ norm.once # norm.text
    /\ norm.once # <<>>

====
